---- MODULE Spec2Model ----
(***************************************************************************)
(* Model of the PistonHeads fleet scraper: the crawl orchestrator          *)
(* (scraper/main.py), its fetcher (scraper/pistonheads.py), the            *)
(* persistence gateway (scraper/supabase_db.py), the reconciliation of one *)
(* observed row into the member_cars table, and the date normalizer and    *)
(* the name splitter (scraper/parsing.py).                                 *)
(*                                                                         *)
(* Optional values (Python None) are modelled as sequences of length <= 1: *)
(* None is << >> and a present value v is << v >>.  Text that the code     *)
(* strips is a sequence of one-character strings; timestamps are day       *)
(* numbers (days since 1970-01-01).                                        *)
(***************************************************************************)
EXTENDS Integers, Sequences, FiniteSets, TLC

None == << >>
Some(v) == << v >>
IsNone(o) == o = << >>
IsSome(o) == o # << >>
Val(o) == o[1]

(***************************************************************************)
(* Bounds of the model.                                                    *)
(***************************************************************************)
\* number of rows the upstream listing shows per page
PageSize == 3
\* number of runs (process invocations) explored
MaxRuns == 3
\* number of entries the site adds on top of the listing between runs
MaxNew == 2
\* day number of the first run (2024-10-04); each run is one day later
FirstDay == 20000
\* reconciler: number of days over which observations are reconciled
MaxDays == 2
\* reconciler: longest notes_history explored
MaxHistory == 2
\* fetcher: largest configured number of attempts explored
MaxAttempts == 3
\* name splitter: largest vocabulary explored
MaxVocabulary == 3

(***************************************************************************)
(* Program constants.                                                      *)
(***************************************************************************)
\* supabase_db.py 68: default of _with_retries' max_attempts, used by every call
max_attempts == 6
\* settings.py: max_retries
max_retries == 3
\* main.py: STOP_BEFORE_LONDON = 2023-01-01 00:00 Europe/London, as a day number
STOP_BEFORE_LONDON == 19358

(***************************************************************************)
(* Text helpers.                                                           *)
(***************************************************************************)
RECURSIVE LStrip(_)
LStrip(s) == IF s # << >> /\ Head(s) = " " THEN LStrip(Tail(s)) ELSE s

RECURSIVE RStrip(_)
RStrip(s) ==
    IF s # << >> /\ s[Len(s)] = " " THEN RStrip(SubSeq(s, 1, Len(s) - 1)) ELSE s

\* str.strip()
Strip(s) == RStrip(LStrip(s))

\* parsing.py html_notes_to_text: the text of the notes element, trimmed
html_notes_to_text(notes_html) == Strip(notes_html)

(***************************************************************************)
(* Name splitter (parsing.py parse_make_model_year).  Display names and    *)
(* makes are sequences of one-character strings.                           *)
(***************************************************************************)
\* str.lower() of a character
Lower(c) ==
    CASE c = "D" -> "d" [] c = "L" -> "l" [] c = "P" -> "p" [] c = "R" -> "r"
      [] c = "T" -> "t" [] OTHER -> c

\* str.lower()
LowerStr(s) == [i \in 1..Len(s) |-> Lower(s[i])]

\* int() of a digit
DigitValue(c) ==
    CASE c = "0" -> 0 [] c = "1" -> 1 [] c = "2" -> 2 [] c = "3" -> 3
      [] c = "4" -> 4 [] c = "5" -> 5 [] c = "6" -> 6 [] c = "7" -> 7
      [] c = "8" -> 8 [] c = "9" -> 9 [] OTHER -> -1

\* str.startswith
StartsWith(s, prefix) ==
    Len(prefix) <= Len(s) /\ SubSeq(s, 1, Len(prefix)) = prefix

\* re.sub(r"\s+", " ", s): every run of whitespace becomes one space
RECURSIVE CollapseSpaces(_)
CollapseSpaces(s) ==
    IF s = << >>
    THEN << >>
    ELSE IF Head(s) = " "
    THEN << " " >> \o CollapseSpaces(LStrip(s))
    ELSE << Head(s) >> \o CollapseSpaces(Tail(s))

\* parsing.py 24, YEAR_RE.search(dn): the text ends, before trailing
\* whitespace, with (19dd) or (20dd)
YearMatch(dn) ==
    LET t == RStrip(dn)
        n == Len(t)
    IN  /\ n >= 6
        /\ t[n - 5] = "("
        /\ << t[n - 4], t[n - 3] >> \in {<< "1", "9" >>, << "2", "0" >>}
        /\ DigitValue(t[n - 2]) >= 0
        /\ DigitValue(t[n - 1]) >= 0
        /\ t[n] = ")"

\* parsing.py 94: int(m.group(0).strip("() "))
YearValue(dn) ==
    LET t == RStrip(dn)
        n == Len(t)
    IN  1000 * DigitValue(t[n - 4]) + 100 * DigitValue(t[n - 3])
        + 10 * DigitValue(t[n - 2]) + DigitValue(t[n - 1])

\* parsing.py 92-97: the display name without its year
dn_wo_year(dn) ==
    IF YearMatch(dn)
    THEN Strip(SubSeq(RStrip(dn), 1, Len(RStrip(dn)) - 6))
    ELSE dn

\* parsing.py 99
dn_norm(dn) == LowerStr(Strip(CollapseSpaces(dn_wo_year(dn))))

\* list.insert keeping the order of sorted(): behind the entries that are at
\* least as long
RECURSIVE InsertByLen(_, _)
InsertByLen(make, sorted) ==
    IF sorted = << >> \/ Len(Head(sorted)) < Len(make)
    THEN << make >> \o sorted
    ELSE << Head(sorted) >> \o InsertByLen(make, Tail(sorted))

\* faulty variant: the makes are tried in the order of the vocabulary
makes_sorted_Unsorted(known_makes) == known_makes

\* parsing.py 101: sorted(known_makes, key=len, reverse=True); the sort is
\* stable, makes of one length keep their order
RECURSIVE makes_sorted(_)
makes_sorted(known_makes) ==
    IF known_makes = << >>
    THEN << >>
    ELSE InsertByLen(known_makes[Len(known_makes)],
                     makes_sorted(SubSeq(known_makes, 1, Len(known_makes) - 1)))

\* parsing.py 105
MakeMatches(make, norm) ==
    norm = LowerStr(make) \/ StartsWith(norm, LowerStr(make) \o << " " >>)

\* parsing.py 102-107: the first make of the list that matches
RECURSIVE make_found(_, _)
make_found(makes, norm) ==
    IF makes = << >>
    THEN None
    ELSE IF MakeMatches(Head(makes), norm)
    THEN Some(Head(makes))
    ELSE make_found(Tail(makes), norm)

\* parsing.py 111-112: re.sub(rf"^{make}\s+", "", text, IGNORECASE).strip()
remove_make(make, text) ==
    IF /\ StartsWith(LowerStr(text), LowerStr(make))
       /\ Len(text) > Len(make)
       /\ text[Len(make) + 1] = " "
    THEN Strip(SubSeq(text, Len(make) + 1, Len(text)))
    ELSE Strip(text)

\* parsing.py 83-117
parse_make_model_year(display_name, known_makes) ==
    LET dn == Strip(display_name)
        found == make_found(makes_sorted(known_makes), dn_norm(dn))
        model == IF found # None
                 THEN remove_make(Val(found), dn_wo_year(dn))
                 ELSE dn_wo_year(dn)
    IN  [make |-> found,
         model |-> IF model = << >> THEN None ELSE Some(model),
         year |-> IF YearMatch(dn) THEN Some(YearValue(dn)) ELSE None]

(***************************************************************************)
(* The upstream site.  An entry of the listing carries what the listing    *)
(* row shows (owner, display name, car id, "updated" cell) and what the    *)
(* car's detail page shows (HTTP status, ownership text, notes, soft-error *)
(* banner).                                                                *)
(***************************************************************************)
RawRecent == "09:49"
RawOld == "Saturday 1st January 2022"
RawBad == "N/A"
RawYesterday == "Yesterday (09:49)"

Entry(id, raw, http, own, notes, soft) ==
    [car_id |-> id, owner |-> "bob", display_name |-> "Porsche 911",
     updated_raw |-> raw, status_code |-> http, ownership |-> own,
     notes_html |-> notes, soft |-> soft]

(***************************************************************************)
(* Date normalizer (parsing.py parse_fleet_updated).  A datetime is a day  *)
(* number with an hour and a minute; the text of a cell is given by what   *)
(* each of the function's five patterns matches in it: None, or the groups *)
(* of the match (numbers as int() reads them, weekdays Monday = 0).        *)
(***************************************************************************)
IsLeap(y) == (y % 4 = 0 /\ y % 100 # 0) \/ y % 400 = 0

DaysInMonth(y, m) ==
    CASE m \in {4, 6, 9, 11} -> 30
      [] m = 2 -> IF IsLeap(y) THEN 29 ELSE 28
      [] OTHER -> 31

\* day number of a calendar date (proleptic Gregorian, 1970-01-01 is day 0)
DayNumber(y, m, d) ==
    LET yy == IF m <= 2 THEN y - 1 ELSE y
        era == yy \div 400
        yoe == yy - era * 400
        doy == (153 * (IF m > 2 THEN m - 3 ELSE m + 9) + 2) \div 5 + d - 1
        doe == yoe * 365 + yoe \div 4 - yoe \div 100 + doy
    IN  era * 146097 + doe - 719468

\* datetime.year
YearOf(day) ==
    LET z == day + 719468
        era == z \div 146097
        doe == z - era * 146097
        yoe == (doe - doe \div 1460 + doe \div 36524 - doe \div 146096) \div 365
        doy == doe - (365 * yoe + yoe \div 4 - yoe \div 100)
        mp == (5 * doy + 2) \div 153
    IN  yoe + era * 400 + (IF mp < 10 THEN 0 ELSE 1)

\* datetime.weekday(): Monday is 0
Weekday(day) == (day + 3) % 7

\* position of a datetime on the time line, in minutes
Minutes(dt) == dt.day * 1440 + dt.hh * 60 + dt.mm

\* what a call gives: a value (None or a datetime), or an exception
Return(v) == [raised |-> FALSE, value |-> v]
Raise == [raised |-> TRUE, value |-> None]

\* datetime.replace(hour=hh, minute=mm, second=0, microsecond=0): ValueError
\* when the hour or the minute is out of range
replace_time(day, hh, mm) ==
    IF hh <= 23 /\ mm <= 59
    THEN Return(Some([day |-> day, hh |-> hh, mm |-> mm]))
    ELSE Raise

\* datetime.replace(year=, month=, day=, hour=, minute=, ...): ValueError when
\* the date does not exist or the time is out of range
replace_date(y, m, d, hh, mm) ==
    IF y >= 1 /\ d >= 1 /\ d <= DaysInMonth(y, m)
    THEN replace_time(DayNumber(y, m, d), hh, mm)
    ELSE Raise

\* parsing.py 146-167: the long form; the ValueError of replace is caught
long_form(g, now_london) ==
    LET year_num == IF g.year # None THEN Val(g.year) ELSE YearOf(now_london.day)
        hh == IF g.hh # None THEN Val(g.hh) ELSE 0
        mm == IF g.mm # None THEN Val(g.mm) ELSE 0
        dt == replace_date(year_num, g.month, g.day, hh, mm)
    IN  IF dt.raised THEN Return(None) ELSE dt

\* parsing.py 170-174: "Yesterday (HH:MM)"
yesterday_form(g, now_london) == replace_time(now_london.day - 1, g.hh, g.mm)

\* parsing.py 185-190 and 205-210: the most recent such weekday, a week
\* earlier when the candidate is after now
weekday_form(target, hh, mm, now_london) ==
    LET days_back == (Weekday(now_london.day) - target) % 7
        candidate == replace_time(now_london.day - days_back, hh, mm)
    IN  IF candidate.raised
        THEN candidate
        ELSE IF Minutes(Val(candidate.value)) > Minutes(now_london)
        THEN Return(Some([Val(candidate.value) EXCEPT !.day = @ - 7]))
        ELSE candidate

\* parsing.py 193-199: "HH:MM", yesterday when more than a minute after now
time_form(g, now_london) ==
    LET dt == replace_time(now_london.day, g.hh, g.mm)
    IN  IF dt.raised
        THEN dt
        ELSE IF Minutes(Val(dt.value)) > Minutes(now_london) + 1
        THEN Return(Some([Val(dt.value) EXCEPT !.day = @ - 1]))
        ELSE dt

\* parsing.py 125-212: the first pattern that matches decides
parse_fleet_updated(cell, now_london) ==
    CASE cell.long # None -> long_form(Val(cell.long), now_london)
      [] cell.long = None /\ cell.yesterday # None ->
             yesterday_form(Val(cell.yesterday), now_london)
      [] cell.long = None /\ cell.yesterday = None /\ cell.weekday_time # None ->
             weekday_form(Val(cell.weekday_time).weekday, Val(cell.weekday_time).hh,
                          Val(cell.weekday_time).mm, now_london)
      [] OTHER ->
             IF cell.time # None
             THEN time_form(Val(cell.time), now_london)
             ELSE IF cell.weekday # None
             THEN weekday_form(Val(cell.weekday).weekday, 0, 0, now_london)
             ELSE Return(None)

\* a text none of the patterns matches
NoMatch ==
    [long |-> None, yesterday |-> None, weekday_time |-> None, time |-> None,
     weekday |-> None]

\* LONG_DATE_RE matches: "Weekday Dth Month [YYYY] [(HH:MM)]"
LongCell(d, m, year, hh, mm) ==
    [NoMatch EXCEPT !.long = Some([day |-> d, month |-> m, year |-> year,
                                   hh |-> hh, mm |-> mm])]
\* "Yesterday (HH:MM)"
YesterdayCell(hh, mm) == [NoMatch EXCEPT !.yesterday = Some([hh |-> hh, mm |-> mm])]
\* "Weekday (HH:MM)"
WeekdayTimeCell(wd, hh, mm) ==
    [NoMatch EXCEPT !.weekday_time = Some([weekday |-> wd, hh |-> hh, mm |-> mm])]
\* "HH:MM"
TimeCell(hh, mm) == [NoMatch EXCEPT !.time = Some([hh |-> hh, mm |-> mm])]
\* "Weekday"
WeekdayCell(wd) == [NoMatch EXCEPT !.weekday = Some([weekday |-> wd])]

\* what the patterns match in the "updated" cells the model's site shows
Matches(updated_raw) ==
    CASE updated_raw = RawRecent -> TimeCell(9, 49)
      [] updated_raw = RawOld -> LongCell(1, 1, Some(2022), None, None)
      [] updated_raw = RawYesterday -> YesterdayCell(9, 49)
      [] OTHER -> NoMatch

\* main.py 67: the runs of the model take place at 15:00
RunClock(day) == [day |-> day, hh |-> 15, mm |-> 0]

\* the day of a row's updated_at_london, None when the cell is unparseable
updated_at(updated_raw, now_london) ==
    LET dt == parse_fleet_updated(Matches(updated_raw), RunClock(now_london))
    IN  IF dt.value = None THEN None ELSE Some(Val(dt.value).day)

\* pistonheads.py parse_fleet_page: signature = f"{car_id}|{owner}|{updated_raw}"
Signature(car_id, owner, updated_raw) == << car_id, owner, updated_raw >>

FleetRow(e, now_london) ==
    [owner |-> e.owner,
     display_name |-> e.display_name,
     car_id |-> e.car_id,
     updated_raw |-> e.updated_raw,
     updated_at_london |-> updated_at(e.updated_raw, now_london),
     signature |-> Signature(e.car_id, e.owner, e.updated_raw)]

\* the entries the site shows on listing page n (empty past the last page)
SitePage(fl, n) ==
    SubSeq(fl, (n - 1) * PageSize + 1,
           IF n * PageSize < Len(fl) THEN n * PageSize ELSE Len(fl))

\* pistonheads.py parse_fleet_page: the rows of a page in document order;
\* a response without the results table gives no rows
parse_fleet_page(entries, has_table, now_london) ==
    IF has_table
    THEN [i \in 1..Len(entries) |-> FleetRow(entries[i], now_london)]
    ELSE << >>

\* pistonheads.py parse_car_details_page
parse_car_details_page(e) ==
    [ownership |-> e.ownership, notes_text |-> html_notes_to_text(e.notes_html)]

\* faulty variant: no page is recognised as a soft error
detect_soft_error_Never(e) == FALSE

\* parsing.py detect_soft_error
detect_soft_error(e) == e.soft

(***************************************************************************)
(* Fetcher (pistonheads.py PistonHeadsClient.get).  answers[k] is the      *)
(* status the server gives to the k-th request for the URL.                *)
(***************************************************************************)
\* the server blocks the first k requests for a URL with 403, then answers s
ServerAnswers(k, s) == [i \in 1..max_retries |-> IF i <= k THEN 403 ELSE s]
\* what a listing URL may answer
Answers == {ServerAnswers(k, s) : k \in 0..max_retries, s \in {200, 404, 500}}

\* faulty variant: the cooldown is slept after the last 403 as well
RECURSIVE get_attempt_SleepLast(_, _, _, _)
get_attempt_SleepLast(answers, retries, attempt, effects) ==
    LET done == effects \o << "jitter_sleep", "request" >>
    IN  IF answers[attempt] = 403
        THEN IF attempt < retries
             THEN get_attempt_SleepLast(answers, retries, attempt + 1,
                                        Append(done, "cooldown"))
             ELSE [status_code |-> answers[attempt], requests |-> attempt,
                   effects |-> Append(done, "cooldown")]
        ELSE [status_code |-> answers[attempt], requests |-> attempt,
              effects |-> done]

\* pistonheads.py 59-66: the pass of the loop for one attempt, with the sleeps
\* and requests done before it; retries is self.max_retries
RECURSIVE get_attempt(_, _, _, _)
get_attempt(answers, retries, attempt, effects) ==
    LET done == effects \o << "jitter_sleep", "request" >>
    IN  IF answers[attempt] = 403 /\ attempt < retries
        THEN get_attempt(answers, retries, attempt + 1, Append(done, "cooldown"))
        ELSE [status_code |-> answers[attempt], requests |-> attempt,
              effects |-> done]

\* pistonheads.py 58-67 for a client configured with retries attempts
get(answers, retries) == get_attempt(answers, retries, 1, << >>)

\* the client of a run: settings.max_retries attempts
ph_get(answers) == get(answers, max_retries)

(***************************************************************************)
(* Persistence gateway (supabase_db.py).                                   *)
(***************************************************************************)
\* An exception is the set of the phrases of RetryablePhrases and of other
\* phrases of interest that occur in str(err).lower().
\* supabase_db.py 35-55: the phrases that make an error transient
RetryablePhrases ==
    {"jsondecodeerror", "expecting value", "cloudflare", "internal server error",
     "json could not be generated",
     "code': 500", "code=500", "code': 502", "code=502",
     "code': 503", "code=503", "code': 504", "code=504",
     "timeout", "timed out", "connection reset", "connecterror", "readerror"}

\* supabase_db.py 26-57
_is_retryable_error(err) == \E phrase \in err : phrase \in RetryablePhrases

\* supabase_db.py 59-66: the sleep before the next attempt, without its jitter
_backoff_sleep(attempt) ==
    [t |-> "backoff_sleep", n |-> IF 2 ^ attempt < 60 THEN 2 ^ attempt ELSE 60]

\* the call of fn() of one attempt
FnCall(attempt) == [t |-> "fn", n |-> attempt]

\* what fn() does at one attempt: it returns, or raises an exception
Returned == [raised |-> FALSE, err |-> {}]
Raised(err) == [raised |-> TRUE, err |-> err]

\* faulty variant: every error is retried while attempts remain
RECURSIVE _with_retries_attempt_RetryAll(_, _, _, _)
_with_retries_attempt_RetryAll(fn, attempts, attempt, effects) ==
    LET done == Append(effects, FnCall(attempt))
    IN  IF ~fn[attempt].raised
        THEN [raised |-> FALSE, err |-> {}, calls |-> attempt, effects |-> done]
        ELSE IF attempt < attempts
        THEN _with_retries_attempt_RetryAll(fn, attempts, attempt + 1,
                                            Append(done, _backoff_sleep(attempt)))
        ELSE [raised |-> TRUE, err |-> fn[attempt].err, calls |-> attempt,
              effects |-> done]

\* supabase_db.py 70-82: the pass of the loop for one attempt, with the calls
\* and sleeps done before it; fn[k] is what the k-th call of fn() does
RECURSIVE _with_retries_attempt(_, _, _, _)
_with_retries_attempt(fn, attempts, attempt, effects) ==
    LET done == Append(effects, FnCall(attempt))
    IN  IF ~fn[attempt].raised
        THEN [raised |-> FALSE, err |-> {}, calls |-> attempt, effects |-> done]
        ELSE IF _is_retryable_error(fn[attempt].err) /\ attempt < attempts
        THEN _with_retries_attempt(fn, attempts, attempt + 1,
                                   Append(done, _backoff_sleep(attempt)))
        ELSE [raised |-> TRUE, err |-> fn[attempt].err, calls |-> attempt,
              effects |-> done]

\* supabase_db.py 68-84 with the default max_attempts
_with_retries(fn) == _with_retries_attempt(fn, max_attempts, 1, << >>)

\* the scrape_state row before any run has written to it
EmptyState ==
    [last_fleet_signature |-> None, last_run_at |-> None,
     last_mode |-> None, last_completed_page |-> None]

StateFields ==
    {"last_fleet_signature", "last_run_at", "last_mode", "last_completed_page"}

\* update_scrape_state: the payload holds the keyword arguments that are not None
StatePayload(kwargs) == {f \in StateFields : IsSome(kwargs[f])}

\* faulty variant: every keyword argument is written, None included
update_scrape_state_Overwrite(stored, kwargs) == kwargs

\* update_scrape_state 112-119: the update sent to the table, None when the
\* payload is empty
scrape_state_update(kwargs) ==
    IF StatePayload(kwargs) = {}
    THEN None
    ELSE Some([f \in StatePayload(kwargs) |-> Val(kwargs[f])])

\* update_scrape_state: the row after the update; no write when the payload is empty
update_scrape_state(stored, kwargs) ==
    [f \in StateFields |->
        IF f \in StatePayload(kwargs) THEN kwargs[f] ELSE stored[f]]

\* get_car: the stored row or None
get_car(cars, car_id) ==
    IF car_id \in DOMAIN cars THEN Some(cars[car_id]) ELSE None

\* upsert_car: the row replaces what is stored under its car_id
upsert_car(cars, row) ==
    [c \in DOMAIN cars \cup {row.car_id} |-> IF c = row.car_id THEN row ELSE cars[c]]

\* update_car: the fields of the patch overwrite the stored row's, the others stay
update_car(cars, car_id, patch) ==
    [c \in DOMAIN cars |->
        IF c = car_id
        THEN [f \in DOMAIN cars[c] |->
                 IF f \in DOMAIN patch THEN patch[f] ELSE cars[c][f]]
        ELSE cars[c]]

(***************************************************************************)
(* Reconciliation of one observed row (main.py run, lines 157-243).        *)
(* The result is the write the run issues: "none", "upsert" or "update".   *)
(***************************************************************************)
\* main.py 157: (details.ownership or "").strip(); clean_text has trimmed it
OwnershipText(details) ==
    IF IsNone(details.ownership) THEN "" ELSE Val(details.ownership)

\* main.py 158: rows with any other ownership text are skipped
KnownOwnership(ownership) == ownership \in {"Current Car", "Previously Owned"}

\* main.py 174-177 and 181-184: the refresh fields
RefreshFields(row, now) ==
    [last_seen_at |-> Some(now),
     last_scraped_at |-> Some(now),
     last_updated_at |-> row.updated_at_london,
     last_updated_raw |-> row.updated_raw]

\* faulty variant: an entity is marked Sold without a sold_at
SoldPatch_NoSoldAt(row, now) ==
    [status |-> "Sold"] @@ RefreshFields(row, now)

\* main.py 171-178: existing entity not yet Sold
SoldPatch(row, now) ==
    [status |-> "Sold", sold_at |-> Some(now)] @@ RefreshFields(row, now)

\* faulty variant: an entity that is already Sold is marked Sold again
SoldTouchPatch_SoldAgain(row, now) ==
    [status |-> "Sold", sold_at |-> Some(now)] @@ RefreshFields(row, now)

\* main.py 180-185: existing entity already Sold
SoldTouchPatch(row, now) == RefreshFields(row, now)

\* faulty variant: a car first seen as previously owned is stored as Sold
ReconcilePreviouslyOwned_Create(existing, row, now) ==
    IF IsSome(existing)
    THEN IF Val(existing).status # "Sold"
         THEN [op |-> "update", payload |-> SoldPatch(row, now)]
         ELSE [op |-> "update", payload |-> SoldTouchPatch(row, now)]
    ELSE [op |-> "upsert",
          payload |->
              [car_id |-> row.car_id, owner_username |-> row.owner,
               display_name |-> row.display_name, status |-> "Sold",
               sold_at |-> Some(now), last_updated_at |-> row.updated_at_london,
               last_updated_raw |-> row.updated_raw, notes_current |-> None,
               notes_history |-> None, first_seen_at |-> Some(now),
               last_seen_at |-> Some(now), last_scraped_at |-> Some(now)]]

\* main.py 167-187
ReconcilePreviouslyOwned(existing, row, now) ==
    IF IsSome(existing)
    THEN IF Val(existing).status # "Sold"
         THEN [op |-> "update", payload |-> SoldPatch(row, now)]
         ELSE [op |-> "update", payload |-> SoldTouchPatch(row, now)]
    ELSE [op |-> "none", payload |-> << >>]

\* main.py 191: details.notes_text.strip() if details.notes_text else None
InsertNotes(details) ==
    IF details.notes_text # << >> THEN Some(Strip(details.notes_text)) ELSE None

\* main.py 192-208
RowToInsert(row, details, now) ==
    [car_id |-> row.car_id,
     owner_username |-> row.owner,
     display_name |-> row.display_name,
     status |-> "Current",
     sold_at |-> None,
     last_updated_at |-> row.updated_at_london,
     last_updated_raw |-> row.updated_raw,
     notes_current |-> InsertNotes(details),
     notes_history |-> None,
     first_seen_at |-> Some(now),
     last_seen_at |-> Some(now),
     last_scraped_at |-> Some(now)]

\* faulty variant: the patch of a current car leaves status and sold_at alone
CurrentPatch_KeepStatus(row, now) ==
    [owner_username |-> row.owner,
     last_updated_at |-> row.updated_at_london,
     last_updated_raw |-> row.updated_raw,
     last_seen_at |-> Some(now),
     last_scraped_at |-> Some(now)]

\* main.py 211-219
CurrentPatch(row, now) ==
    [owner_username |-> row.owner,
     last_updated_at |-> row.updated_at_london,
     last_updated_raw |-> row.updated_raw,
     last_seen_at |-> Some(now),
     last_scraped_at |-> Some(now),
     status |-> "Current",
     sold_at |-> None]

\* main.py 222-226: display_name changed (make, model and model_year are
\* recomputed from display_name and written with it)
NamePatch(e, row) ==
    IF e.display_name # row.display_name
    THEN [display_name |-> row.display_name]
    ELSE << >>

\* main.py 229: (details.notes_text or "").strip()
NewNotes(details) == Strip(details.notes_text)

\* main.py 230: (existing.get("notes_current") or "").strip()
OldNotes(e) == IF IsNone(e.notes_current) THEN << >> ELSE Strip(Val(e.notes_current))

\* main.py 232-234: the stored history, or a fresh list when it is not a list
HistoryList(e) == IF IsNone(e.notes_history) THEN << >> ELSE Val(e.notes_history)

\* faulty variant: observed notes are appended whenever they are not empty
NotesPatch_AlwaysAppend(e, details, now) ==
    IF NewNotes(details) # << >>
    THEN [notes_current |-> Some(NewNotes(details)),
          notes_history |->
              Some(Append(HistoryList(e),
                          [captured_at |-> now, notes |-> NewNotes(details)]))]
    ELSE << >>

\* faulty variant: the new entry is put in front of the stored history
NotesPatch_Prepend(e, details, now) ==
    IF NewNotes(details) # << >> /\ NewNotes(details) # OldNotes(e)
    THEN [notes_current |-> Some(NewNotes(details)),
          notes_history |->
              Some(<< [captured_at |-> now, notes |-> NewNotes(details)] >>
                   \o HistoryList(e))]
    ELSE << >>

\* faulty variant: new notes are appended to the history only
NotesPatch_HistoryOnly(e, details, now) ==
    IF NewNotes(details) # << >> /\ NewNotes(details) # OldNotes(e)
    THEN [notes_history |->
              Some(Append(HistoryList(e),
                          [captured_at |-> now, notes |-> NewNotes(details)]))]
    ELSE << >>

\* main.py 231-241
NotesPatch(e, details, now) ==
    IF NewNotes(details) # << >> /\ NewNotes(details) # OldNotes(e)
    THEN [notes_current |-> Some(NewNotes(details)),
          notes_history |->
              Some(Append(HistoryList(e),
                          [captured_at |-> now, notes |-> NewNotes(details)]))]
    ELSE << >>

\* main.py 189-243
ReconcileCurrentCar(existing, row, details, now) ==
    IF IsNone(existing)
    THEN [op |-> "upsert", payload |-> RowToInsert(row, details, now)]
    ELSE [op |-> "update",
          payload |-> NotesPatch(Val(existing), details, now)
                      @@ NamePatch(Val(existing), row)
                      @@ CurrentPatch(row, now)]

\* main.py 157-243
Reconcile(existing, row, details, now) ==
    IF OwnershipText(details) = "Previously Owned"
    THEN ReconcilePreviouslyOwned(existing, row, now)
    ELSE ReconcileCurrentCar(existing, row, details, now)

\* the member_cars table after the write
ApplyWrite(cars, car_id, w) ==
    CASE w.op = "upsert" -> upsert_car(cars, w.payload)
      [] w.op = "update" -> update_car(cars, car_id, w.payload)
      [] OTHER -> cars

(***************************************************************************)
(* Crawl orchestrator (main.py run).                                       *)
(***************************************************************************)
VARIABLES
    fleet,          \* the site: the listing's entries, most recent first
    news,           \* number of entries the site has added since the start
    runs,           \* number of runs started
    scrape_state,   \* persisted: the scrape_state row
    member_cars,    \* persisted: the member_cars table, keyed by car_id
    mode,           \* run: --mode
    state,          \* run: the scrape_state row read at the start
    stop_signature, \* run
    now_ldn,        \* run
    p,              \* run: the listing page
    rows,           \* run: the rows parsed from page p
    idx,            \* run: position of the row loop in rows
    first_row_signature_this_run,
    pc,             \* "idle" (no run), "fetch", "rows", "checkpoint", "done"
    outcome,        \* run: "none", "end", "stop", "fatal"
    error,          \* run: the error that aborted it, "" if none
    log,            \* run: the fetches, reads and writes issued so far, in order
    hist,           \* history of the earlier runs, while all runs were initial
                    \* runs over an unchanged listing
    rec,            \* the reconciliation done last: row, details, existing, now
    call            \* the call of a component made last: arguments and result

\* the state of the orchestrator and of the database
runVars ==
    << fleet, news, runs, scrape_state, member_cars, mode, state, stop_signature,
       now_ldn, p, rows, idx, first_row_signature_this_run, pc, outcome, error, log,
       hist, rec >>

vars == << runVars, call >>

siteVars == << fleet, news >>
startVars == << mode, state, stop_signature, now_ldn, runs >>

\* entries of the log: what was done, the listing page it belongs to, the row's
\* position on the page (0 if none) and the status of the response (0 if none)
Ev(t, page, i, status_code) == [t |-> t, p |-> page, i |-> i, s |-> status_code]

\* faulty variant: the resume ignores which mode wrote last_completed_page
_get_initial_resume_page_AnyMode(st) ==
    IF IsSome(st.last_completed_page) /\ Val(st.last_completed_page) >= 1
    THEN Val(st.last_completed_page) + 1
    ELSE 1

\* faulty variant: the resume starts at the completed page itself
_get_initial_resume_page_SamePage(st) ==
    IF /\ st.last_mode = Some("initial")
       /\ IsSome(st.last_completed_page)
       /\ Val(st.last_completed_page) >= 1
    THEN Val(st.last_completed_page)
    ELSE 1

\* main.py 33-49
_get_initial_resume_page(st) ==
    IF /\ st.last_mode = Some("initial")
       /\ IsSome(st.last_completed_page)
       /\ Val(st.last_completed_page) >= 1
    THEN Val(st.last_completed_page) + 1
    ELSE 1

\* main.py 71-78
StartPage(m, st) == IF m = "initial" THEN _get_initial_resume_page(st) ELSE 1

\* main.py 57
StopSignatureOf(m, st) == IF m = "nightly" THEN st.last_fleet_signature ELSE None

\* main.py 89
ListingIsFatal(status_code) == status_code >= 500

\* faulty variant: a persisting 403 on a detail page is not checked
DetailIsFatal_Never(status_code) == FALSE

\* main.py 142
DetailIsFatal(status_code) == status_code = 403

\* main.py 109-110
HeadSignature(first, rs) == IF IsNone(first) THEN Some(rs[1].signature) ELSE first

\* main.py 113-115: the page holds a row with the stop signature
StopMatched(m, stop, rs) ==
    /\ m = "nightly"
    /\ IsSome(stop)
    /\ \E i \in 1..Len(rs) : rs[i].signature = Val(stop)

\* faulty variant: the stop write does not supply last_fleet_signature
StopKwargs_NoSignature(first, now, m, page) ==
    [last_fleet_signature |-> None, last_run_at |-> Some(now),
     last_mode |-> Some(m), last_completed_page |-> Some(page)]

\* main.py 116-121 and 129-134
StopKwargs(first, now, m, page) ==
    [last_fleet_signature |-> first, last_run_at |-> Some(now),
     last_mode |-> Some(m), last_completed_page |-> Some(page)]

\* faulty variant: the checkpoint of a page leaves last_fleet_signature alone
PageKwargs_NoSignature(first, now, m, page) ==
    [last_run_at |-> Some(now), last_mode |-> Some(m),
     last_completed_page |-> Some(page), last_fleet_signature |-> None]

\* main.py 246-253
PageKwargs(first, now, m, page) ==
    [last_run_at |-> Some(now), last_mode |-> Some(m),
     last_completed_page |-> Some(page), last_fleet_signature |-> first]

\* faulty variant: a row without a timestamp counts as older than the cutoff
CutoffHit_NullStops(m, row) ==
    /\ m = "initial"
    /\ \/ IsNone(row.updated_at_london)
       \/ Val(row.updated_at_london) < STOP_BEFORE_LONDON

\* main.py 128
CutoffHit(m, row) ==
    /\ m = "initial"
    /\ IsSome(row.updated_at_london)
    /\ Val(row.updated_at_london) < STOP_BEFORE_LONDON

\* the detail page the site serves for a car
DetailOf(fl, car_id) ==
    LET k == CHOOSE k \in 1..Len(fl) : fl[k].car_id = car_id IN fl[k]

\* history: nothing is recorded once a nightly run or a change of the listing
\* has happened
NoHist == [valid |-> FALSE, done |-> {}, in_progress |-> None]

\* history: the run that just ended is folded in when the next initial run
\* starts: the rows it fetched, and the page it was on when it aborted.  A run
\* that ended without fetching a page or without writing a checkpoint leaves
\* the page of the last abort in progress.
FoldHist(h, m) ==
    IF m = "initial" /\ h.valid
    THEN [valid |-> TRUE,
          done |-> h.done \cup
                   {<< log[k].p, log[k].i >> : k \in {j \in 1..Len(log) : log[j].t = "detail"}},
          in_progress |->
              IF outcome = "fatal" /\ \E k \in 1..Len(log) : log[k].t = "listing"
              THEN Some(p)
              ELSE IF \E k \in 1..Len(log) : log[k].t = "state_write"
              THEN None
              ELSE h.in_progress]
    ELSE NoHist

\* an uncaught exception leaves run(): nothing else is written
Abort(err, lg) ==
    /\ pc' = "done"
    /\ outcome' = "fatal"
    /\ error' = err
    /\ log' = lg
    /\ UNCHANGED << scrape_state, member_cars >>

\* a return or break out of the page loop
Finish(how, lg) ==
    /\ pc' = "done"
    /\ outcome' = how
    /\ error' = ""
    /\ log' = lg

\* faulty variant: the end of the listing writes a checkpoint for the empty page
EndOfListing_Checkpoint(lg) ==
    /\ Finish("end", Append(lg, Ev("state_write", p, 0, 0)))
    /\ scrape_state' =
           update_scrape_state(scrape_state,
               PageKwargs(first_row_signature_this_run, now_ldn, mode, p))
    /\ UNCHANGED member_cars

\* main.py 104-107: no rows on the page, the loop is left and nothing is written
EndOfListing(lg) ==
    /\ Finish("end", lg)
    /\ UNCHANGED << scrape_state, member_cars >>

(***************************************************************************)
(* Initial state: a site with a listing, an untouched database, no run.    *)
(***************************************************************************)
InitFleets ==
    { << Entry(1, RawRecent, 200, Some("Current Car"), << "a" >>, FALSE),
         Entry(2, RawBad, 200, Some("Previously Owned"), << >>, FALSE),
         Entry(3, RawRecent, 200, Some("Current Car"), << >>, TRUE),
         Entry(4, RawRecent, 200, Some("Current Car"), << "b" >>, FALSE),
         Entry(5, RawOld, 200, Some("Current Car"), << >>, FALSE) >>,
      << Entry(1, RawRecent, 200, Some("Current Car"), << >>, FALSE),
         Entry(2, RawRecent, 200, None, << >>, FALSE),
         Entry(3, RawBad, 404, None, << >>, FALSE) >> }

Init ==
    /\ fleet \in InitFleets
    /\ news = 0
    /\ runs = 0
    /\ scrape_state = EmptyState
    /\ member_cars = << >>
    /\ mode = "initial"
    /\ state = EmptyState
    /\ stop_signature = None
    /\ now_ldn = FirstDay
    /\ p = 1
    /\ rows = << >>
    /\ idx = 0
    /\ first_row_signature_this_run = None
    /\ pc = "idle"
    /\ outcome = "none"
    /\ error = ""
    /\ log = << >>
    /\ hist = [valid |-> TRUE, done |-> {}, in_progress |-> None]
    /\ rec = None
    /\ call = None

\* main.py 52-82: a run starts; reading scrape_state may raise
StartRun(m, db_ok) ==
    /\ pc = "idle"
    /\ runs < MaxRuns
    /\ runs' = runs + 1
    /\ mode' = m
    /\ now_ldn' = FirstDay + runs
    /\ rows' = << >>
    /\ idx' = 0
    /\ first_row_signature_this_run' = None
    /\ hist' = FoldHist(hist, m)
    /\ UNCHANGED << siteVars, rec, call >>
    /\ IF db_ok
       THEN /\ state' = scrape_state
            /\ stop_signature' = StopSignatureOf(m, scrape_state)
            /\ p' = StartPage(m, scrape_state)
            /\ pc' = "fetch"
            /\ outcome' = "none"
            /\ error' = ""
            /\ log' = << Ev("state_read", 0, 0, 0) >>
            /\ UNCHANGED << scrape_state, member_cars >>
       ELSE /\ state' = EmptyState
            /\ stop_signature' = None
            /\ p' = 1
            /\ Abort("db", << >>)

\* main.py 84-123: one listing page is fetched and parsed
FetchListing(answers, raises, db_ok) ==
    /\ pc = "fetch"
    /\ UNCHANGED << siteVars, startVars, p, hist, rec, call >>
    /\ LET r == ph_get(answers)
           lg == Append(log, Ev("listing", p, 0, IF raises THEN 0 ELSE r.status_code))
           rs == parse_fleet_page(SitePage(fleet, p), r.status_code = 200, now_ldn)
           first == HeadSignature(first_row_signature_this_run, rs)
       IN  IF raises
           THEN /\ Abort("network", lg)
                /\ UNCHANGED << rows, idx, first_row_signature_this_run >>
           ELSE IF ListingIsFatal(r.status_code)
           THEN /\ Abort("server_error", lg)
                /\ UNCHANGED << rows, idx, first_row_signature_this_run >>
           ELSE IF rs = << >>
           THEN /\ EndOfListing(lg)
                /\ rows' = rs
                /\ UNCHANGED << idx, first_row_signature_this_run >>
           ELSE /\ rows' = rs
                /\ first_row_signature_this_run' = first
                /\ IF StopMatched(mode, stop_signature, rs)
                   THEN /\ UNCHANGED idx
                        /\ IF db_ok
                           THEN /\ scrape_state' =
                                      update_scrape_state(scrape_state,
                                          StopKwargs(first, now_ldn, mode, p))
                                /\ UNCHANGED member_cars
                                /\ Finish("stop", Append(lg, Ev("state_write", p, 0, 0)))
                           ELSE Abort("db", lg)
                   ELSE /\ idx' = 1
                        /\ pc' = "rows"
                        /\ log' = lg
                        /\ UNCHANGED << outcome, error, scrape_state, member_cars >>

\* main.py 126-243 (one iteration of the row loop) : the next row of the page
\* after the row: the next one, or the end of the page
NextRow ==
    /\ IF idx < Len(rows)
       THEN idx' = idx + 1 /\ pc' = "rows"
       ELSE idx' = idx /\ pc' = "checkpoint"
    /\ UNCHANGED << outcome, error >>

\* main.py 147, 153, 160: continue
SkipRow(lg) ==
    /\ NextRow
    /\ log' = lg
    /\ UNCHANGED << scrape_state, member_cars >>

ProcessRow(blocked, raises, read_ok, write_ok) ==
    /\ pc = "rows"
    /\ UNCHANGED << siteVars, startVars, p, rows, first_row_signature_this_run,
                    hist, rec, call >>
    /\ LET row == rows[idx]
           page == DetailOf(fleet, row.car_id)
           car_res == ph_get(ServerAnswers(blocked, page.status_code))
           details == parse_car_details_page(page)
           existing == get_car(member_cars, row.car_id)
           w == Reconcile(existing, row, details, now_ldn)
           lgF == Append(log, Ev("detail", p, idx,
                                 IF raises THEN 0 ELSE car_res.status_code))
           lgR == Append(lgF, Ev("car_read", p, idx, 0))
           lgW == Append(lgR, Ev("car_write", p, idx, 0))
       IN  IF CutoffHit(mode, row)
           THEN /\ UNCHANGED idx
                /\ IF write_ok
                   THEN /\ scrape_state' =
                              update_scrape_state(scrape_state,
                                  StopKwargs(first_row_signature_this_run,
                                             now_ldn, mode, p))
                        /\ UNCHANGED member_cars
                        /\ Finish("stop", Append(log, Ev("state_write", p, 0, 0)))
                   ELSE Abort("db", log)
           ELSE IF raises
           THEN Abort("network", lgF) /\ UNCHANGED idx
           ELSE IF DetailIsFatal(car_res.status_code)
           THEN Abort("blocked", lgF) /\ UNCHANGED idx
           ELSE IF car_res.status_code = 404
           THEN SkipRow(lgF)
           ELSE IF detect_soft_error(page)
           THEN SkipRow(lgF)
           ELSE IF ~KnownOwnership(OwnershipText(details))
           THEN SkipRow(lgF)
           ELSE IF ~read_ok
           THEN Abort("db", lgF) /\ UNCHANGED idx
           ELSE IF w.op = "none"
           THEN SkipRow(lgR)
           ELSE IF ~write_ok
           THEN Abort("db", lgR) /\ UNCHANGED idx
           ELSE /\ member_cars' = ApplyWrite(member_cars, row.car_id, w)
                /\ UNCHANGED scrape_state
                /\ log' = lgW
                /\ NextRow

\* faulty variant: after the checkpoint the run fetches the same page again
Checkpoint_SamePage(write_ok) ==
    /\ pc = "checkpoint"
    /\ UNCHANGED << siteVars, startVars, rows, idx, first_row_signature_this_run,
                    hist, rec, call >>
    /\ IF write_ok
       THEN /\ scrape_state' =
                  update_scrape_state(scrape_state,
                      PageKwargs(first_row_signature_this_run, now_ldn, mode, p))
            /\ UNCHANGED member_cars
            /\ log' = Append(log, Ev("state_write", p, 0, 0))
            /\ p' = p
            /\ pc' = "fetch"
            /\ UNCHANGED << outcome, error >>
       ELSE Abort("db", log) /\ UNCHANGED p

\* main.py 245-256: the page is finished; the checkpoint is written and the
\* run moves to the next page
Checkpoint(write_ok) ==
    /\ pc = "checkpoint"
    /\ UNCHANGED << siteVars, startVars, rows, idx, first_row_signature_this_run,
                    hist, rec, call >>
    /\ IF write_ok
       THEN /\ scrape_state' =
                  update_scrape_state(scrape_state,
                      PageKwargs(first_row_signature_this_run, now_ldn, mode, p))
            /\ UNCHANGED member_cars
            /\ log' = Append(log, Ev("state_write", p, 0, 0))
            /\ p' = p + 1
            /\ pc' = "fetch"
            /\ UNCHANGED << outcome, error >>
       ELSE Abort("db", log) /\ UNCHANGED p

\* between two runs the site lists a new car on top of the listing
NewEntry(n) ==
    Entry(10 + n, RawRecent, 200, Some("Current Car"), << "a" >>, FALSE)

SiteAdd ==
    /\ pc = "idle"
    /\ news < MaxNew
    /\ news' = news + 1
    /\ fleet' = << NewEntry(news + 1) >> \o fleet
    /\ hist' = NoHist
    /\ UNCHANGED << rec, call >>
    /\ UNCHANGED << runs, scrape_state, member_cars, mode, state, stop_signature,
                    now_ldn, p, rows, idx, first_row_signature_this_run, pc,
                    outcome, error, log >>

\* between two runs a day passes on the site: the updated cell of the first
\* entry of the listing, "09:49", now reads "Yesterday (09:49)"; it is the
\* only change of the site in a behaviour
SiteAge ==
    /\ pc = "idle"
    /\ news = 0
    /\ news < MaxNew
    /\ fleet[1].updated_raw = RawRecent
    /\ news' = MaxNew
    /\ fleet' = [fleet EXCEPT ![1].updated_raw = RawYesterday]
    /\ hist' = NoHist
    /\ UNCHANGED << rec, call >>
    /\ UNCHANGED << runs, scrape_state, member_cars, mode, state, stop_signature,
                    now_ldn, p, rows, idx, first_row_signature_this_run, pc,
                    outcome, error, log >>

\* what the fetch and the persistence calls of one step do: all succeed, the
\* HTTP client raises, the read or the write raises after its retries
IO == {"ok", "raise", "read_fail", "write_fail"}

\* main.py 258-266: run() has returned or raised and the process ends
Exit ==
    /\ pc = "done"
    /\ pc' = "idle"
    /\ UNCHANGED << fleet, news, runs, scrape_state, member_cars, mode, state,
                    stop_signature, now_ldn, p, rows, idx,
                    first_row_signature_this_run, outcome, error, log, hist,
                    rec, call >>

Next ==
    \/ \E m \in {"initial", "nightly"}, db_ok \in BOOLEAN : StartRun(m, db_ok)
    \/ \E answers \in Answers, io \in IO \ {"read_fail"} :
           FetchListing(answers, io = "raise", io # "write_fail")
    \/ \E blocked \in 0..max_retries, io \in IO :
           ProcessRow(blocked, io = "raise", io # "read_fail", io # "write_fail")
    \/ \E write_ok \in BOOLEAN : Checkpoint(write_ok)
    \/ Exit
    \/ SiteAdd
    \/ SiteAge

Spec == Init /\ [][Next]_vars

\* main.py 84-256: a step of a run that has started. run() is sequential code
\* and its fetches and persistence calls return or raise, so a run that can
\* take a step takes one.
RunStep ==
    \/ \E answers \in Answers, io \in IO \ {"read_fail"} :
           FetchListing(answers, io = "raise", io # "write_fail")
    \/ \E blocked \in 0..max_retries, io \in IO :
           ProcessRow(blocked, io = "raise", io # "read_fail", io # "write_fail")
    \/ \E write_ok \in BOOLEAN : Checkpoint(write_ok)

\* the runs whose termination is checked: runs one after the other on a
\* site that stays as it is, each starting from what the runs before it
\* persisted
NextLive ==
    \/ \E m \in {"initial", "nightly"}, db_ok \in BOOLEAN : StartRun(m, db_ok)
    \/ RunStep
    \/ Exit

SpecLive == Init /\ [][NextLive]_vars /\ WF_vars(RunStep)

(***************************************************************************)
(* The reconciler alone: any sequence of observations (a listing row and   *)
(* the details of its car) is reconciled into member_cars, as the row loop *)
(* of run() does for the rows whose detail page it has parsed.             *)
(***************************************************************************)
RecCars == {1}

\* the listing rows observed
RecRows(now) ==
    {[FleetRow(Entry(c, raw, 200, None, << >>, FALSE), now)
         EXCEPT !.display_name = d] :
        c \in RecCars, raw \in {RawRecent, RawBad},
        d \in {"Porsche 911", "Porsche 911 (2019)"}}

\* the detail pages observed
RecDetails ==
    {parse_car_details_page(Entry(1, RawRecent, 200, own, notes, FALSE)) :
        own \in {None, Some("Current Car"), Some("Previously Owned"),
                 Some("Garage queen")},
        notes \in {<< >>, << "a" >>, << " ", "b" >>}}

InitRec ==
    /\ Init
    /\ fleet = CHOOSE f \in InitFleets : Len(f) = 3

\* the write a reconciliation issued: "skip" when the ownership was not
\* recognised (main.py 158-160), else "none", "upsert" or "update"
Written(details, w) ==
    IF KnownOwnership(OwnershipText(details)) THEN w.op ELSE "skip"

\* what the reconciliation before this one did, when it was given the same
\* row and the same details; "no" when it was given others or there was none
Again(last, row, details) ==
    IF IsSome(last) /\ Val(last).row = row /\ Val(last).details = details
    THEN Val(last).op
    ELSE "no"

\* main.py 155-243 for one row: unrecognised ownership is skipped, otherwise
\* the stored entity is read and the write of the reconciliation is issued
Observe(row, details) ==
    /\ LET existing == get_car(member_cars, row.car_id)
           w == Reconcile(existing, row, details, now_ldn)
       IN  /\ (w.op = "update" /\ "notes_history" \in DOMAIN w.payload) =>
                  Len(Val(w.payload.notes_history)) <= MaxHistory
           /\ member_cars' =
                  IF KnownOwnership(OwnershipText(details))
                  THEN ApplyWrite(member_cars, row.car_id, w)
                  ELSE member_cars
           /\ rec' = Some([row |-> row, details |-> details,
                           existing |-> existing, now |-> now_ldn,
                           op |-> Written(details, w),
                           again |-> Again(rec, row, details)])
    /\ UNCHANGED << fleet, news, runs, scrape_state, mode, state, stop_signature,
                    now_ldn, p, rows, idx, first_row_signature_this_run, pc,
                    outcome, error, log, hist, call >>

\* the next run happens a day later
Tick ==
    /\ now_ldn < FirstDay + MaxDays - 1
    /\ now_ldn' = now_ldn + 1
    /\ UNCHANGED << fleet, news, runs, scrape_state, member_cars, mode, state,
                    stop_signature, p, rows, idx, first_row_signature_this_run,
                    pc, outcome, error, log, hist, rec, call >>

NextRec ==
    \/ \E row \in RecRows(now_ldn), details \in RecDetails : Observe(row, details)
    \/ Tick

SpecRec == InitRec /\ [][NextRec]_vars

(***************************************************************************)
(* The fetcher alone: a client configured with some number of attempts     *)
(* gets a URL whose server answers the requests with a sequence of         *)
(* statuses.                                                               *)
(***************************************************************************)
\* statuses a server answers with
Statuses == {200, 403, 404, 500, 503}

\* pistonheads.py 58-67, one call
GetUrl(answers, retries) ==
    /\ call = None
    /\ call' = Some([op |-> "get", answers |-> answers, retries |-> retries,
                     result |-> get(answers, retries)])
    /\ UNCHANGED runVars

NextGet ==
    \E retries \in 1..MaxAttempts :
        \E answers \in [1..retries -> Statuses] : GetUrl(answers, retries)

SpecGet == Init /\ [][NextGet]_vars

(***************************************************************************)
(* The gateway's retry wrapper alone: one call of _with_retries around an  *)
(* operation whose calls return or raise in any way.                       *)
(***************************************************************************)
\* exceptions of the operation: a read timeout, a gateway error page, a
\* constraint violation (the last one is not transient)
ErrTimeout == {"timed out"}
ErrGateway == {"code': 503", "json could not be generated"}
ErrConflict == {"code': 23505", "duplicate key"}

FnOutcomes == {Returned, Raised(ErrTimeout), Raised(ErrGateway), Raised(ErrConflict)}

\* supabase_db.py 68-84, one call
WithRetries(fn) ==
    /\ call = None
    /\ call' = Some([op |-> "_with_retries", fn |-> fn, result |-> _with_retries(fn)])
    /\ UNCHANGED runVars

NextRetry == \E fn \in [1..max_attempts -> FnOutcomes] : WithRetries(fn)

SpecRetry == Init /\ [][NextRetry]_vars

(***************************************************************************)
(* The gateway's update_scrape_state alone: any keyword arguments are      *)
(* written over any stored row.                                            *)
(***************************************************************************)
\* keyword arguments of update_scrape_state
StateKwargs ==
    [last_fleet_signature : {None, Some(Signature(1, "bob", RawRecent))},
     last_run_at : {None, Some(FirstDay)},
     last_mode : {None, Some("initial"), Some("nightly")},
     last_completed_page : {None, Some(1), Some(2)}]

\* supabase_db.py 94-119
WriteState(kwargs) ==
    /\ scrape_state' = update_scrape_state(scrape_state, kwargs)
    /\ call' = Some([op |-> "update_scrape_state", stored |-> scrape_state,
                     kwargs |-> kwargs, sent |-> scrape_state_update(kwargs)])
    /\ UNCHANGED << fleet, news, runs, member_cars, mode, state, stop_signature,
                    now_ldn, p, rows, idx, first_row_signature_this_run, pc,
                    outcome, error, log, hist, rec >>

NextState == \E kwargs \in StateKwargs : WriteState(kwargs)

SpecState == Init /\ [][NextState]_vars

(***************************************************************************)
(* The date normalizer alone: any cell is normalized at any time of the    *)
(* days explored.                                                          *)
(***************************************************************************)
\* hours and minutes as the patterns read them: \d{1,2} and \d{2}
CellTimes ==
    {<< 9, 49 >>, << 22, 19 >>, << 10, 1 >>, << 0, 0 >>, << 23, 59 >>,
     << 24, 10 >>, << 25, 0 >>, << 10, 75 >>}

\* the cells normalized
Cells ==
    {NoMatch}
    \cup {TimeCell(t[1], t[2]) : t \in CellTimes}
    \cup {YesterdayCell(t[1], t[2]) : t \in CellTimes}
    \cup {WeekdayTimeCell(wd, t[1], t[2]) : wd \in {0, 4, 6}, t \in CellTimes}
    \cup {WeekdayCell(wd) : wd \in 0..6}
    \cup {LongCell(d, m, y, None, None) :
              d \in {0, 1, 26, 29, 31}, m \in {1, 2, 9},
              y \in {None, Some(2022), Some(2024)}}
    \cup {LongCell(26, 1, None, Some(t[1]), Some(t[2])) : t \in CellTimes}
    \cup {[YesterdayCell(22, 19) EXCEPT
               !.weekday_time = Some([weekday |-> 4, hh |-> 10, mm |-> 1])]}

\* the times at which cells are normalized
Clocks ==
    {[day |-> FirstDay + d, hh |-> t[1], mm |-> t[2]] :
        d \in 0..(MaxDays - 1), t \in {<< 15, 0 >>, << 0, 0 >>, << 9, 48 >>}}

\* parsing.py 125-212, one call
Normalize(cell, now_london) ==
    /\ call = None
    /\ call' = Some([op |-> "parse_fleet_updated", cell |-> cell,
                     now |-> now_london,
                     result |-> parse_fleet_updated(cell, now_london)])
    /\ UNCHANGED runVars

NextDate == \E cell \in Cells, now_london \in Clocks : Normalize(cell, now_london)

SpecDate == Init /\ [][NextDate]_vars

(***************************************************************************)
(* The name splitter alone: a display name is split with a vocabulary.     *)
(***************************************************************************)
LandRover == << "L", "a", "n", "d", " ", "R", "o", "v", "e", "r" >>
Rover == << "R", "o", "v", "e", "r" >>
Land == << "L", "a", "n", "d" >>
Porsche == << "P", "o", "r", "s", "c", "h", "e" >>
Defender == << "D", "e", "f", "e", "n", "d", "e", "r" >>

\* the makes vocabularies are made of
Makes == {LandRover, Rover, Land, Porsche}

\* the vocabularies: makes in any order, none twice (main.py 97-98: the
\* extracted list is de-duplicated, the fallback list has no duplicates)
Vocabularies ==
    UNION {{v \in [1..n -> Makes] : \A i, j \in 1..n : v[i] = v[j] => i = j} :
              n \in 0..MaxVocabulary}

\* the display names of the listing rows, as clean_text leaves them: trimmed,
\* whitespace collapsed
DisplayNames ==
    {base \o year :
        base \in {LandRover \o << " " >> \o Defender,
                   LowerStr(LandRover \o << " " >> \o Defender),
                   LandRover, Rover, Porsche,
                   Land \o LowerStr(Rover) \o << " " >> \o Defender,
                   Rover \o << " ", "7", "5" >>,
                   Porsche \o << " ", "9", "1", "1" >>,
                   << "T", "e", "s", "l", "a", " ", "3" >>},
        year \in {<< >>, << " ", "(", "2", "0", "1", "9", ")" >>, << "(", "2", "0", "1", "9", ")" >>, << " ", "(", "1", "8", "9", "9", ")" >>}}

\* parsing.py 83-117, one call
SplitName(display_name, known_makes) ==
    /\ call = None
    /\ call' = Some([op |-> "parse_make_model_year",
                     display_name |-> display_name, known_makes |-> known_makes,
                     result |-> parse_make_model_year(display_name, known_makes)])
    /\ UNCHANGED runVars

NextName ==
    \E display_name \in DisplayNames, known_makes \in Vocabularies :
        SplitName(display_name, known_makes)

SpecName == Init /\ [][NextName]_vars

(***************************************************************************)
(* Vocabulary of the properties.                                           *)
(***************************************************************************)
\* positions of the log holding an event of kind t
LogAt(t) == {k \in 1..Len(log) : log[k].t = t}

\* the row at position i of listing page q was fetched (detail page) in this run
DetailFetched(q, i) == \E k \in LogAt("detail") : log[k].p = q /\ log[k].i = i

\* the first listing page this run fetched
FirstListingPage == log[CHOOSE k \in LogAt("listing") :
                            \A j \in LogAt("listing") : k <= j].p

\* the head signature: the signature the site shows for the first row of the
\* first listing page this run fetched
SiteHeadSignature ==
    LET e == SitePage(fleet, FirstListingPage)[1]
    IN  Signature(e.car_id, e.owner, e.updated_raw)

\* the first row of the current page that carries the stop signature
MatchIndex ==
    CHOOSE i \in 1..Len(rows) :
        /\ rows[i].signature = Val(stop_signature)
        /\ \A j \in 1..(i - 1) : rows[j].signature # Val(stop_signature)

\* a nightly run has matched the stop signature (and the process has not ended)
NightlyStopped == pc # "idle" /\ mode = "nightly" /\ outcome = "stop"

\* C1: when a nightly run ends at the row carrying the stop signature, every
\* row before it in listing order (earlier pages, and earlier rows of the same
\* page) has had its detail page fetched in this run, and the matching row and
\* the rows after it have not.
C1_StopAfterPrecedingRows ==
    NightlyStopped =>
        /\ \A q \in 1..(p - 1) : \A i \in 1..Len(SitePage(fleet, q)) :
               DetailFetched(q, i)
        /\ \A i \in 1..(MatchIndex - 1) : DetailFetched(p, i)
        /\ \A i \in MatchIndex..Len(rows) : ~DetailFetched(p, i)

\* C2: when a nightly run ends at the stop signature, the persisted row holds
\* last_fleet_signature = the head signature and last_mode = "nightly", and
\* that write is the last thing the run did: no fetch follows it.
C2_StopWritesHead ==
    NightlyStopped =>
        /\ pc = "done"
        /\ scrape_state.last_fleet_signature = Some(SiteHeadSignature)
        /\ scrape_state.last_mode = Some("nightly")
        /\ log[Len(log)].t = "state_write"
        /\ \A k \in LogAt("listing") \cup LogAt("detail") : k < Len(log)

\* C2 witness: a nightly run has stopped at the stop signature after rows newer
\* than it, so the write replaced the stored signature by another one
C2_Witness ==
    /\ NightlyStopped
    /\ scrape_state.last_fleet_signature # state.last_fleet_signature
    /\ MatchIndex > 1

\* C3: while a nightly run has neither matched the stop signature nor
\* exhausted the listing (also when it has aborted), the persisted
\* last_fleet_signature is still the one read at the start of the run.
C3_SignatureKeptUntilStop ==
    (mode = "nightly" /\ log # << >> /\ outcome \in {"none", "fatal"}) =>
        scrape_state.last_fleet_signature = state.last_fleet_signature

\* C4: the first listing page a run fetches is last_completed_page + 1 exactly
\* when the run is in initial mode and the row read at the start has last_mode
\* "initial" and an integer last_completed_page >= 1; otherwise it is page 1.
C4_FirstPage ==
    LogAt("listing") # {} =>
        FirstListingPage =
            IF /\ mode = "initial"
               /\ state.last_mode = Some("initial")
               /\ IsSome(state.last_completed_page)
               /\ Val(state.last_completed_page) >= 1
            THEN Val(state.last_completed_page) + 1
            ELSE 1

\* C4 witness: an initial run resumed after page 1, and another run started at
\* page 1 although a completed page was persisted
C4_Witness ==
    /\ LogAt("listing") # {}
    /\ mode = "initial"
    /\ state.last_mode = Some("initial")
    /\ FirstListingPage = 2

C4_WitnessNightlyState ==
    /\ LogAt("listing") # {}
    /\ mode = "initial"
    /\ state.last_mode = Some("nightly")
    /\ IsSome(state.last_completed_page)
    /\ FirstListingPage = 1

\* the last listing page this run has checkpointed
LastCheckpointPage ==
    log[CHOOSE k \in LogAt("state_write") :
            \A j \in LogAt("state_write") : j <= k].p

\* what the last checkpoint of this run left in scrape_state: the row read at
\* the start if the run has written none
LastCheckpoint ==
    IF LogAt("state_write") = {}
    THEN state
    ELSE [last_fleet_signature |-> Some(SiteHeadSignature),
          last_run_at |-> Some(now_ldn),
          last_mode |-> Some(mode),
          last_completed_page |-> Some(LastCheckpointPage)]

\* the fetch logged at position k is one the orchestrator must abort on
FatalFetch(k) ==
    \/ log[k].t = "listing" /\ log[k].s >= 500
    \/ log[k].t = "detail" /\ log[k].s = 403

\* C6: a listing fetch answered 5xx, or a detail fetch answered 403 after the
\* retries, is the last thing the run does: the run has aborted with an error,
\* nothing (fetch, entity write, state write) follows the fetch, and the
\* persisted scrape_state is what the last checkpoint left.
C6_FatalFetchAborts ==
    \A k \in 1..Len(log) :
        FatalFetch(k) =>
            /\ k = Len(log)
            /\ pc \in {"done", "idle"}
            /\ outcome = "fatal"
            /\ error # ""
            /\ pc = "done" => scrape_state = LastCheckpoint

\* C6 witness: a run aborted on a persisting detail 403 after it had
\* checkpointed a page
C6_Witness ==
    /\ pc = "done"
    /\ error = "blocked"
    /\ LogAt("state_write") # {}
    /\ FatalFetch(Len(log))

\* C7: a listing fetch that still answers 403 after the retries aborts the run
\* with an error.
C7_Listing403Fatal ==
    \A k \in LogAt("listing") : log[k].s = 403 => outcome = "fatal"

\* the listing fetch logged at position k gave a page without rows
EmptyListing(k) ==
    /\ log[k].t = "listing"
    /\ log[k].s # 0
    /\ log[k].s < 500
    /\ (log[k].s # 200 \/ SitePage(fleet, log[k].p) = << >>)

\* C8: a listing page without rows ends the run at once and without error:
\* the fetch of that page is the last thing the run does, and the persisted
\* scrape_state is what the last checkpoint left (the row read at the start if
\* the run wrote none).
C8_EmptyPageEnds ==
    pc # "idle" =>
        /\ \A k \in 1..Len(log) :
               EmptyListing(k) => k = Len(log) /\ pc = "done" /\ outcome = "end"
        /\ outcome = "end" =>
               /\ error = ""
               /\ EmptyListing(Len(log))
               /\ scrape_state = LastCheckpoint

\* C8 witness: a run that has checkpointed a page ends on the empty page after it
C8_Witness ==
    /\ pc = "done"
    /\ outcome = "end"
    /\ log[Len(log)].s = 200
    /\ LogAt("state_write") # {}

\* C8 witness: the first page fetched is empty, nothing is written
C8_WitnessFirstPage ==
    /\ pc = "done"
    /\ outcome = "end"
    /\ LogAt("state_write") = {}
    /\ scrape_state = state

\* the row at position i of listing page q is at or after the first row of
\* that page that is older than the cutoff
AtOrAfterCutoff(q, i) ==
    \E j \in 1..i : CutoffHit("initial", FleetRow(SitePage(fleet, q)[j], now_ldn))

\* C5: in a sequence of initial runs over an unchanged listing, each of which
\* may abort anywhere: (a) a run fetches no listing page at or below the
\* last_completed_page persisted before the fetch; (b) a row whose detail page
\* an earlier run had fetched is fetched again only on the one page that was
\* in progress, not yet checkpointed, when the last run aborted (runs that
\* ended since without writing a checkpoint aside); (c) up to the persisted
\* last_completed_page every row before its page's cutoff row has been
\* fetched by some run: no page is skipped.
C5_ResumeAtCheckpoint ==
    (hist.valid /\ mode = "initial" /\ runs > 0) =>
        /\ \A k \in LogAt("listing") :
               /\ IsSome(state.last_completed_page) =>
                      log[k].p > Val(state.last_completed_page)
               /\ \A j \in LogAt("state_write") : j < k => log[k].p > log[j].p
        /\ \A k \in LogAt("detail") :
               << log[k].p, log[k].i >> \in hist.done =>
                   /\ hist.in_progress = Some(log[k].p)
                   /\ log[k].p = FirstListingPage
        /\ IsSome(scrape_state.last_completed_page) =>
               \A q \in 1..Val(scrape_state.last_completed_page) :
                   \A i \in 1..Len(SitePage(fleet, q)) :
                       \/ AtOrAfterCutoff(q, i)
                       \/ << q, i >> \in hist.done
                       \/ DetailFetched(q, i)

\* C5 witness: a restarted initial run, resumed after a checkpointed page,
\* fetches again a row of the page the previous run aborted on
C5_Witness ==
    /\ hist.valid
    /\ mode = "initial"
    /\ IsSome(state.last_completed_page)
    /\ \E k \in LogAt("detail") : << log[k].p, log[k].i >> \in hist.done

(***************************************************************************)
(* Properties of the reconciler (under SpecRec).                           *)
(***************************************************************************)
\* the last reconciliation found an entity stored for its car
RecExisting == IsSome(rec) /\ IsSome(Val(rec).existing)

\* the entity the last reconciliation found, and the entity stored now
RecBefore == Val(Val(rec).existing)
RecAfter == member_cars[Val(rec).row.car_id]
RecOwnership == OwnershipText(Val(rec).details)

\* the fields a refresh patches
RefreshNames ==
    {"last_updated_at", "last_updated_raw", "last_seen_at", "last_scraped_at"}

\* C9: reconciling a "Previously Owned" observation for an entity that is
\* already Sold leaves status Sold and sold_at as they were; only
\* last_updated_at/raw, last_seen_at and last_scraped_at are patched.
C9_SoldStaysSold ==
    (RecExisting /\ RecBefore.status = "Sold" /\ RecOwnership = "Previously Owned") =>
        /\ RecAfter.status = "Sold"
        /\ RecAfter.sold_at = RecBefore.sold_at
        /\ \A f \in DOMAIN RecAfter \ RefreshNames : RecAfter[f] = RecBefore[f]
        /\ RecAfter.last_seen_at = Some(Val(rec).now)
        /\ RecAfter.last_scraped_at = Some(Val(rec).now)
        /\ RecAfter.last_updated_at = Val(rec).row.updated_at_london
        /\ RecAfter.last_updated_raw = Val(rec).row.updated_raw

\* C9 witness: an entity sold on an earlier day is observed "Previously Owned"
\* again
C9_Witness ==
    /\ RecExisting
    /\ RecBefore.status = "Sold"
    /\ RecOwnership = "Previously Owned"
    /\ Val(RecBefore.sold_at) < Val(rec).now
    /\ RecAfter.last_seen_at = Some(Val(rec).now)

\* C10: reconciling a "Current Car" observation for an existing entity leaves
\* it with status Current and sold_at null whatever its status was, and a
\* "Previously Owned" observation for an existing entity that is not Sold
\* leaves it with status Sold and sold_at = now.
C10_OwnershipSetsStatus ==
    RecExisting =>
        /\ RecOwnership = "Current Car" =>
               RecAfter.status = "Current" /\ RecAfter.sold_at = None
        /\ (RecOwnership = "Previously Owned" /\ RecBefore.status # "Sold") =>
               RecAfter.status = "Sold" /\ RecAfter.sold_at = Some(Val(rec).now)

\* C10 witness: an entity that was Sold is observed as a current car and is
\* Current again
C10_Witness ==
    /\ RecExisting
    /\ RecBefore.status = "Sold"
    /\ IsSome(RecBefore.sold_at)
    /\ RecOwnership = "Current Car"
    /\ RecAfter.status = "Current"

\* C10 witness: an entity that was Current is observed "Previously Owned"
C10_WitnessSold ==
    /\ RecExisting
    /\ RecBefore.status = "Current"
    /\ RecOwnership = "Previously Owned"
    /\ RecAfter.status = "Sold"

\* the entity of the last reconciliation's car is stored
RecStored == IsSome(rec) /\ Val(rec).row.car_id \in DOMAIN member_cars

\* C11: when a row and its details are reconciled a second time right after
\* they were reconciled, the second reconciliation appends nothing to
\* notes_history and leaves notes_current as it was, whether the first one
\* created the entity or patched it; if the first one wrote nothing because no
\* entity was stored, neither does the second.
C11_SecondApplicationKeepsNotes ==
    (IsSome(rec) /\ Val(rec).again # "no") =>
        /\ Val(rec).again \in {"upsert", "update"} =>
               /\ RecExisting
               /\ RecAfter.notes_history = RecBefore.notes_history
               /\ RecAfter.notes_current = RecBefore.notes_current
        /\ Val(rec).again \in {"none", "skip"} =>
               /\ Val(rec).op = Val(rec).again
               /\ RecStored = RecExisting
               /\ RecExisting =>
                      /\ RecAfter.notes_history = RecBefore.notes_history
                      /\ RecAfter.notes_current = RecBefore.notes_current

\* C11 witness: notes that a patch had appended to the history on an earlier
\* day are observed again, with the same row
C11_Witness ==
    /\ IsSome(rec)
    /\ Val(rec).again = "update"
    /\ RecOwnership = "Current Car"
    /\ NewNotes(Val(rec).details) # << >>
    /\ IsSome(RecBefore.notes_history)
    /\ RecBefore.notes_current = Some(NewNotes(Val(rec).details))
    /\ Val(RecBefore.last_seen_at) < Val(rec).now

\* C11 witness: the first of the two reconciliations created the entity with
\* its notes
C11_WitnessCreated ==
    /\ IsSome(rec)
    /\ Val(rec).again = "upsert"
    /\ NewNotes(Val(rec).details) # << >>
    /\ RecAfter.notes_current = Some(NewNotes(Val(rec).details))
    /\ RecAfter.notes_history = None

\* C12: a "Previously Owned" observation of a car that has no stored entity
\* writes nothing, so the car still has no entity; an entity that a
\* reconciliation created comes from a "Current Car" observation and has
\* status Current and sold_at null.
C12_SoldNeverCreates ==
    (IsSome(rec) /\ ~RecExisting) =>
        /\ RecOwnership = "Previously Owned" =>
               /\ Val(rec).op = "none"
               /\ ~RecStored
        /\ RecStored =>
               /\ RecOwnership = "Current Car"
               /\ RecAfter.status = "Current"
               /\ RecAfter.sold_at = None

\* C12 witness: a car without an entity is observed "Previously Owned"
C12_Witness ==
    /\ IsSome(rec)
    /\ ~RecExisting
    /\ RecOwnership = "Previously Owned"
    /\ member_cars = << >>

\* C12 witness: a car without an entity is observed "Current Car" and is created
C12_WitnessCreated ==
    /\ IsSome(rec)
    /\ ~RecExisting
    /\ RecStored
    /\ RecOwnership = "Current Car"

\* the notes_history list stored with an entity (null is the empty list)
StoredHistory(e) == IF e.notes_history = None THEN << >> ELSE Val(e.notes_history)

\* C13: every reconciliation of an existing entity leaves its notes_history
\* as it was or extends it by exactly one entry at the end; no entry is
\* removed, changed or moved.
C13_HistoryAppendOnly ==
    RecExisting =>
        /\ RecStored
        /\ \/ StoredHistory(RecAfter) = StoredHistory(RecBefore)
           \/ /\ Len(StoredHistory(RecAfter)) = Len(StoredHistory(RecBefore)) + 1
              /\ SubSeq(StoredHistory(RecAfter), 1, Len(StoredHistory(RecBefore)))
                     = StoredHistory(RecBefore)

\* C13 witness: a second entry was appended behind the first
C13_Witness ==
    /\ RecExisting
    /\ Len(StoredHistory(RecBefore)) = 1
    /\ Len(StoredHistory(RecAfter)) = 2
    /\ StoredHistory(RecAfter)[2].notes # StoredHistory(RecAfter)[1].notes

(***************************************************************************)
(* Properties of the fetcher (under SpecGet).                              *)
(***************************************************************************)
\* the last call was a get
GetCalled == IsSome(call) /\ Val(call).op = "get"

\* number of effects of kind e among the effects of the last get
Effects(e) ==
    Cardinality({j \in 1..Len(Val(call).result.effects) :
                    Val(call).result.effects[j] = e})

\* the attempt of the last get that the server answered with another status
\* than 403 first, 0 if it answered all attempts with 403
FirstAnswer ==
    LET a == Val(call).answers
    IN  IF \A i \in 1..Len(a) : a[i] = 403
        THEN 0
        ELSE CHOOSE i \in 1..Len(a) : a[i] # 403 /\ \A j \in 1..(i - 1) : a[j] = 403

\* C14: a get of a URL that answers 403 to every attempt sends exactly
\* max_retries requests, sleeps the cooldown between two consecutive requests
\* and not after the last one (max_retries - 1 cooldowns), and returns the
\* 403; a response with another status is returned right after the attempt
\* that got it: no cooldown and no request follows it.
C14_RetriesOn403 ==
    GetCalled =>
        LET r == Val(call).result
            n == Val(call).retries
            k == IF FirstAnswer = 0 THEN n ELSE FirstAnswer
        IN  /\ FirstAnswer = 0 => r.status_code = 403
            /\ FirstAnswer # 0 => r.status_code = Val(call).answers[FirstAnswer]
            /\ r.requests = k
            /\ Effects("request") = k
            /\ Effects("cooldown") = k - 1
            /\ r.effects[Len(r.effects)] = "request"
            /\ \A j \in 1..Len(r.effects) :
                   r.effects[j] = "cooldown" =>
                       /\ r.effects[j - 1] = "request"
                       /\ j + 2 <= Len(r.effects)
                       /\ r.effects[j + 2] = "request"

\* C14 witness: every attempt was answered 403, more than one attempt configured
C14_Witness ==
    /\ GetCalled
    /\ FirstAnswer = 0
    /\ Val(call).retries > 1
    /\ Val(call).result.status_code = 403

\* C14 witness: a 404 came after one 403 although attempts were left
C14_WitnessOther ==
    /\ GetCalled
    /\ FirstAnswer = 2
    /\ Val(call).retries > 2
    /\ Val(call).result.status_code = 404

(***************************************************************************)
(* Properties of update_scrape_state (under SpecState).                    *)
(***************************************************************************)
\* the last call was an update_scrape_state
StateWritten == IsSome(call) /\ Val(call).op = "update_scrape_state"

\* the fields the last update_scrape_state was given a value for
Supplied == {f \in StateFields : Val(call).kwargs[f] # None}

\* C15: update_scrape_state leaves the row with the supplied values in the
\* supplied fields and the stored values in all others, sends an update of
\* exactly the supplied fields, and sends none when no field is supplied.
C15_OnlySuppliedFieldsChange ==
    StateWritten =>
        /\ \A f \in Supplied : scrape_state[f] = Val(call).kwargs[f]
        /\ \A f \in StateFields \ Supplied : scrape_state[f] = Val(call).stored[f]
        /\ Supplied = {} => Val(call).sent = None /\ scrape_state = Val(call).stored
        /\ Supplied # {} =>
               /\ Val(call).sent # None
               /\ DOMAIN Val(Val(call).sent) = Supplied

\* C15 witness: a write of some fields over a row whose other fields hold
\* values
C15_Witness ==
    /\ StateWritten
    /\ Supplied = {"last_run_at", "last_completed_page"}
    /\ Val(call).stored.last_mode = Some("initial")
    /\ Val(call).stored.last_fleet_signature # None
    /\ scrape_state # Val(call).stored

\* C15 witness: a call without any field over a row that holds values
C15_WitnessNone ==
    /\ StateWritten
    /\ Supplied = {}
    /\ Val(call).stored.last_completed_page = Some(2)

(***************************************************************************)
(* Properties of the date normalizer (under SpecDate).                     *)
(***************************************************************************)
\* the last call was a parse_fleet_updated
Normalized == IsSome(call) /\ Val(call).op = "parse_fleet_updated"

\* the pattern that decided the last call matched a time that does not exist
BadTime(g) == Val(g).hh > 23 \/ Val(g).mm > 59

\* C16: parse_fleet_updated returns a datetime or None for every cell and
\* every now, it never raises; a cell whose time has an hour above 23 or a
\* minute above 59 gives None.
C16_NormalizerTotal ==
    Normalized =>
        LET c == Val(call).cell
            r == Val(call).result
        IN  /\ ~r.raised
            /\ (c.long = None /\ c.yesterday # None /\ BadTime(c.yesterday)) =>
                   r.value = None
            /\ (c.long = None /\ c.yesterday = None /\ c.weekday_time # None
                   /\ BadTime(c.weekday_time)) => r.value = None
            /\ (c.long = None /\ c.yesterday = None /\ c.weekday_time = None
                   /\ c.time # None /\ BadTime(c.time)) => r.value = None

\* the long form: an invalid calendar date or time in the
\* long form gives None
LongFormInvalidIsNone ==
    (Normalized /\ Val(call).cell.long # None) =>
        LET g == Val(Val(call).cell.long)
            r == Val(call).result
        IN  /\ ~r.raised
            /\ (g.day = 0 \/ (g.month = 2 /\ g.day > 29)) => r.value = None
            /\ (g.hh # None /\ (Val(g.hh) > 23 \/ Val(g.mm) > 59)) => r.value = None

(***************************************************************************)
(* Properties of the name splitter (under SpecName).                       *)
(***************************************************************************)
\* the last call was a parse_make_model_year
NameSplit == IsSome(call) /\ Val(call).op = "parse_make_model_year"

\* the display name of the last call without its trailing (YYYY), trimmed
YearStripped == dn_wo_year(Strip(Val(call).display_name))

\* the makes of the last call's vocabulary that, compared case-insensitively,
\* equal the year-stripped display name or are followed in it by a space
Candidates ==
    {make \in {Val(call).known_makes[i] : i \in 1..Len(Val(call).known_makes)} :
        \/ LowerStr(make) = LowerStr(YearStripped)
        \/ /\ Len(YearStripped) > Len(make)
           /\ LowerStr(SubSeq(YearStripped, 1, Len(make))) = LowerStr(make)
           /\ YearStripped[Len(make) + 1] = " "}

\* C17: the make returned is the longest entry of the vocabulary that,
\* compared case-insensitively, equals the year-stripped display name or is
\* followed in it by a space, whatever the order of the vocabulary (none if
\* no entry is); with "Land Rover" and "Rover" in the vocabulary,
\* "Land Rover Defender" gives make "Land Rover" and model "Defender".
C17_LongestMake ==
    NameSplit =>
        LET r == Val(call).result
        IN  /\ Candidates = {} => r.make = None
            /\ Candidates # {} =>
                   /\ r.make # None
                   /\ Val(r.make) \in Candidates
                   /\ \A make \in Candidates : Len(make) <= Len(Val(r.make))
            /\ (/\ Val(call).display_name = LandRover \o << " " >> \o Defender
                /\ {LandRover, Rover} \subseteq
                       {Val(call).known_makes[i] : i \in 1..Len(Val(call).known_makes)})
                   => /\ r.make = Some(LandRover)
                      /\ r.model = Some(Defender)
                      /\ r.year = None

\* C17 witness: the vocabulary lists "Land" before "Land Rover" and "Rover"
C17_Witness ==
    /\ NameSplit
    /\ Val(call).display_name = LandRover \o << " " >> \o Defender
    /\ Len(Val(call).known_makes) = 3
    /\ Val(call).known_makes[1] = Land
    /\ Candidates = {Land, LandRover}
    /\ Val(call).result.make = Some(LandRover)

\* what is left of the year-stripped display name behind the make, trimmed
BehindMake(make) == Strip(SubSeq(YearStripped, Len(make) + 1, Len(YearStripped)))

\* C18: when a make is found, the model is the display name without the
\* trailing (YYYY) and without the make in front, trimmed, and null when
\* nothing is left: a display name that is a make, with or without a year,
\* gives that make and model null.
C18_ModelIsRemainder ==
    (NameSplit /\ Val(call).result.make # None) =>
        LET r == Val(call).result
            rest == BehindMake(Val(r.make))
        IN  /\ rest # << >> => r.model = Some(rest)
            /\ rest = << >> => r.model = None

(***************************************************************************)
(* Properties of the orchestrator's cutoff and checkpoints (under Spec).   *)
(***************************************************************************)
\* the row has a timestamp and it is earlier than 2023-01-01 00:00 London
OlderThanCutoff(row) ==
    row.updated_at_london # None /\ Val(row.updated_at_london) < STOP_BEFORE_LONDON

\* the row the site shows at position i of listing page q, as this run parses it
SiteRow(q, i) == FleetRow(SitePage(fleet, q)[i], now_ldn)

\* an initial run has stopped at the cutoff (and the process has not ended)
CutoffStopped == pc # "idle" /\ mode = "initial" /\ outcome = "stop"

\* the state writes of this run that name listing page q
WritesOf(q) == {k \in LogAt("state_write") : log[k].p = q}

\* C19: an initial run stops at the first row, in page order, that has a
\* timestamp earlier than the cutoff: the rows before it on the page have had
\* their detail page fetched, that row and the later ones have not, and one
\* state write, the last thing the run does, leaves last_completed_page = the
\* current page and last_mode = "initial".  No initial run fetches the detail
\* page of a row at or after such a row; a row without timestamp does not
\* stop the run; a nightly run stops only at the stop signature and processes
\* rows older than the cutoff like the others.
C19_CutoffStop ==
    pc # "idle" =>
        /\ CutoffStopped =>
               /\ pc = "done"
               /\ OlderThanCutoff(rows[idx])
               /\ \A j \in 1..(idx - 1) :
                      ~OlderThanCutoff(rows[j]) /\ DetailFetched(p, j)
               /\ \A j \in idx..Len(rows) : ~DetailFetched(p, j)
               /\ log[Len(log)] = Ev("state_write", p, 0, 0)
               /\ Cardinality(WritesOf(p)) = 1
               /\ scrape_state.last_completed_page = Some(p)
               /\ scrape_state.last_mode = Some("initial")
        /\ mode = "initial" =>
               \A k \in LogAt("detail") :
                   \A j \in 1..log[k].i : ~OlderThanCutoff(SiteRow(log[k].p, j))
        /\ (mode = "initial" /\ pc = "checkpoint") =>
               \A j \in 1..Len(rows) : DetailFetched(p, j)
        /\ (mode = "nightly" /\ outcome = "stop") =>
               /\ stop_signature # None
               /\ \E j \in 1..Len(rows) : rows[j].signature = Val(stop_signature)
        /\ (mode = "nightly" /\ pc = "checkpoint") =>
               \A j \in 1..Len(rows) : DetailFetched(p, j)

\* C19 witness: an initial run has stopped at a cutoff row that is not the
\* first of its page, after the rows before it were processed
C19_Witness ==
    /\ CutoffStopped
    /\ idx > 1
    /\ DetailFetched(p, idx - 1)
    /\ scrape_state.last_completed_page = Some(p)

\* C19 witness: an initial run has gone past a row without timestamp
C19_WitnessNull ==
    /\ pc # "idle"
    /\ mode = "initial"
    /\ \E k \in LogAt("detail") : SiteRow(log[k].p, log[k].i).updated_at_london = None

\* C19 witness: a nightly run has fetched the detail page of a row older than
\* the cutoff
C19_WitnessNightly ==
    /\ pc # "idle"
    /\ mode = "nightly"
    /\ \E k \in LogAt("detail") : OlderThanCutoff(SiteRow(log[k].p, log[k].i))

\* every row of listing page q had its detail page fetched before position k
\* of the log
HandledBefore(q, k) ==
    \A i \in 1..Len(SitePage(fleet, q)) :
        \E j \in LogAt("detail") : j < k /\ log[j].p = q /\ log[j].i = i

\* the state write at position k of the log is the write of a cutoff stop
CutoffWrite(k) == CutoffStopped /\ k = Len(log)

\* the state write at position k of the log is the write of a nightly stop
NightlyStopWrite(k) == NightlyStopped /\ k = Len(log)

\* C20: in a run, last_completed_page = q is written only after every row of
\* page q has been processed or skipped (the write of the cutoff stop aside),
\* and the listing page after q is fetched only after that write; so while the
\* run has not hit the cutoff stop, the last_completed_page it has persisted
\* is a page whose rows were all handled.
C20_CheckpointAfterPage ==
    pc # "idle" =>
        /\ \A k \in LogAt("state_write") :
               ~CutoffWrite(k) => HandledBefore(log[k].p, k)
        /\ \A k \in LogAt("listing") :
               log[k].p # FirstListingPage =>
                   log[k - 1] = Ev("state_write", log[k].p - 1, 0, 0)
        /\ (~CutoffStopped /\ LogAt("state_write") # {}) =>
               /\ scrape_state.last_completed_page = Some(LastCheckpointPage)
               /\ HandledBefore(LastCheckpointPage, Len(log) + 1)

\* the same with the write of the nightly stop set aside as well
CheckpointAfterPageUnlessStopped ==
    pc # "idle" =>
        /\ \A k \in LogAt("state_write") :
               (~CutoffWrite(k) /\ ~NightlyStopWrite(k)) =>
                   HandledBefore(log[k].p, k)
        /\ \A k \in LogAt("listing") :
               log[k].p # FirstListingPage =>
                   log[k - 1] = Ev("state_write", log[k].p - 1, 0, 0)
        /\ (outcome # "stop" /\ LogAt("state_write") # {}) =>
               /\ scrape_state.last_completed_page = Some(LastCheckpointPage)
               /\ HandledBefore(LastCheckpointPage, Len(log) + 1)

(***************************************************************************)
(* Properties of the orchestrator's skips and of the nightly end (under    *)
(* Spec).                                                                  *)
(***************************************************************************)
\* the entry the site lists at position i of listing page q
SiteEntry(q, i) == SitePage(fleet, q)[i]

\* the detail fetch logged at position k was answered 404
Skipped404(k) == log[k].t = "detail" /\ log[k].s = 404

\* the detail fetch logged at position k got a page with a soft-error phrase
SkippedSoft(k) ==
    log[k].t = "detail" /\ log[k].s = 200 /\ SiteEntry(log[k].p, log[k].i).soft

\* the detail fetch logged at position k got a page whose ownership text is
\* neither "Current Car" nor "Previously Owned"
SkippedUnknown(k) ==
    /\ log[k].t = "detail"
    /\ log[k].s = 200
    /\ ~SiteEntry(log[k].p, log[k].i).soft
    /\ SiteEntry(log[k].p, log[k].i).ownership
           \notin {Some("Current Car"), Some("Previously Owned")}

SkippedRow(k) == Skipped404(k) \/ SkippedSoft(k) \/ SkippedUnknown(k)

\* C21: a row whose detail fetch answers 404, whose detail page is a soft
\* error, or whose ownership text is not one of the two known ones is skipped:
\* no entity is read or written for it, the run does not abort on it, the
\* next thing the run does is the next row of the page (its detail fetch, or
\* the state write of the cutoff stop at it) or, after the last row, the
\* state write that checkpoints the page as completed.
C21_SkippedRowContinues ==
    pc # "idle" =>
        \A k \in 1..Len(log) :
            SkippedRow(k) =>
                /\ \A j \in LogAt("car_read") \cup LogAt("car_write") :
                       ~(log[j].p = log[k].p /\ log[j].i = log[k].i)
                /\ k < Len(log) =>
                       \/ log[k + 1] = Ev("state_write", log[k].p, 0, 0)
                       \/ /\ log[k + 1].t = "detail"
                          /\ log[k + 1].p = log[k].p
                          /\ log[k + 1].i = log[k].i + 1
                /\ (k < Len(log) /\ log[k].i = Len(SitePage(fleet, log[k].p))) =>
                       log[k + 1] = Ev("state_write", log[k].p, 0, 0)
                /\ k = Len(log) =>
                       /\ error \in {"", "db"}
                       /\ outcome = "none" =>
                              \/ pc = "rows" /\ idx = log[k].i + 1
                              \/ pc = "checkpoint" /\ idx = Len(rows)
                                    /\ log[k].i = Len(rows)

\* C21 witness: the last row of a page was skipped as a soft error and the
\* page was checkpointed
C21_Witness ==
    /\ pc # "idle"
    /\ \E k \in 1..(Len(log) - 1) :
           /\ SkippedSoft(k)
           /\ log[k + 1] = Ev("state_write", log[k].p, 0, 0)
           /\ scrape_state.last_completed_page = Some(log[k].p)

\* C21 witness: a row with unknown ownership was skipped and the next row,
\* answered 404, was skipped as well
C21_WitnessUnknown404 ==
    /\ pc # "idle"
    /\ \E k \in 1..(Len(log) - 1) : SkippedUnknown(k) /\ Skipped404(k + 1)

\* a nightly run has reached an empty listing page after a page with rows
NightlyExhausted ==
    /\ pc = "done"
    /\ mode = "nightly"
    /\ outcome = "end"
    /\ SitePage(fleet, 1) # << >>
    /\ \E k \in LogAt("listing") : log[k].p = 1 /\ log[k].s = 200

\* C22: when a nightly run has reached an empty listing page after a page
\* with rows, without matching the stop signature (stored or not), the
\* persisted last_fleet_signature is the signature of the first row of page 1.
C22_ExhaustedPersistsHead ==
    NightlyExhausted =>
        LET e == SitePage(fleet, 1)[1]
        IN  scrape_state.last_fleet_signature =
                Some(Signature(e.car_id, e.owner, e.updated_raw))

\* C22 witness: the stored stop signature is no longer in the listing
C22_WitnessVanished ==
    /\ NightlyExhausted
    /\ stop_signature # None
    /\ \A i \in 1..Len(fleet) :
           stop_signature #
               Some(Signature(fleet[i].car_id, fleet[i].owner, fleet[i].updated_raw))
    /\ scrape_state.last_fleet_signature # stop_signature

\* C22 witness: no stop signature was stored
C22_Witness ==
    /\ NightlyExhausted
    /\ stop_signature = None
    /\ state.last_fleet_signature = None
    /\ scrape_state.last_fleet_signature # None

(***************************************************************************)
(* Properties of the retry wrapper (under SpecRetry).                      *)
(***************************************************************************)
RetryCalled == IsSome(call) /\ Val(call).op = "_with_retries"

\* the exceptions the supabase_db.py classification calls transient, among
\* those the operation raises here
Transient(o) == o.raised /\ o.err \in {ErrTimeout, ErrGateway}

\* the effects of n calls of the operation with a backoff sleep of
\* min(60, 2^k) seconds after each but the last
RECURSIVE CallsAndSleeps(_)
CallsAndSleeps(n) ==
    IF n = 1
    THEN << [t |-> "fn", n |-> 1] >>
    ELSE CallsAndSleeps(n - 1)
             \o << [t |-> "backoff_sleep",
                    n |-> CASE n - 1 = 1 -> 2 [] n - 1 = 2 -> 4 [] n - 1 = 3 -> 8
                            [] n - 1 = 4 -> 16 [] n - 1 = 5 -> 32 [] OTHER -> 60],
                   [t |-> "fn", n |-> n] >>

\* C23: _with_retries calls the operation at most max_attempts (6) times, one
\* call after the other with a backoff sleep between two calls; every call
\* before the last one raised a transient error; it returns at the first
\* success; an error that is not transient propagates from the call that
\* raised it; a transient error propagates only from the last allowed call.
C23_BoundedRetries ==
    RetryCalled =>
        LET fn == Val(call).fn
            r == Val(call).result
        IN  /\ max_attempts = 6
            /\ r.calls \in 1..max_attempts
            /\ r.effects = CallsAndSleeps(r.calls)
            /\ \A k \in 1..(r.calls - 1) : Transient(fn[k])
            /\ r.raised = fn[r.calls].raised
            /\ r.raised => r.err = fn[r.calls].err
            /\ (r.raised /\ Transient(fn[r.calls])) => r.calls = max_attempts

\* C23 witness: every call raises a transient error; the sixth error
\* propagates after five sleeps
C23_Witness ==
    /\ RetryCalled
    /\ \A k \in 1..max_attempts : Transient(Val(call).fn[k])
    /\ Val(call).result.raised
    /\ Val(call).result.calls = max_attempts
    /\ Len(Val(call).result.effects) = 2 * max_attempts - 1

\* C23 witness: the third call succeeds after two transient errors
C23_WitnessSuccess ==
    /\ RetryCalled
    /\ Transient(Val(call).fn[1]) /\ Transient(Val(call).fn[2])
    /\ ~Val(call).fn[3].raised
    /\ ~Val(call).result.raised
    /\ Val(call).result.calls = 3

\* C23 witness: an error that is not transient propagates from the second
\* call although attempts remain
C23_WitnessPermanent ==
    /\ RetryCalled
    /\ Transient(Val(call).fn[1])
    /\ Val(call).fn[2] = Raised(ErrConflict)
    /\ Val(call).result = [raised |-> TRUE, err |-> ErrConflict, calls |-> 2,
                           effects |-> CallsAndSleeps(2)]

(***************************************************************************)
(* Invariants of the stored entities (under SpecRec).                      *)
(***************************************************************************)
\* C25: starting from an empty store, after any sequence of reconciliations
\* every stored entity has status Sold exactly when its sold_at is not null,
\* and status Current exactly when its sold_at is null.
C25_SoldIffSoldAt ==
    \A c \in DOMAIN member_cars :
        /\ member_cars[c].status \in {"Current", "Sold"}
        /\ member_cars[c].status = "Sold" <=> member_cars[c].sold_at # None
        /\ member_cars[c].status = "Current" <=> member_cars[c].sold_at = None

\* C25 witness: a stored entity was marked Sold, with its sold_at
C25_Witness ==
    /\ RecExisting
    /\ RecBefore.status = "Current"
    /\ RecAfter.status = "Sold"
    /\ RecAfter.sold_at = Some(Val(rec).now)

\* C25 witness: a Sold entity was observed as a current car again
C25_WitnessResurrected ==
    /\ RecExisting
    /\ RecBefore.status = "Sold" /\ RecBefore.sold_at # None
    /\ RecAfter.status = "Current" /\ RecAfter.sold_at = None

\* C26: the last entry of a non-empty notes_history holds the entity's
\* notes_current; the notes seen when the entity is created are stored in
\* notes_current only, notes_history being null; an observation with empty
\* notes of an existing entity changes neither notes_current nor
\* notes_history.
C26_HistoryEndsAtCurrent ==
    /\ \A c \in DOMAIN member_cars :
           LET e == member_cars[c]
               h == StoredHistory(e)
           IN  h # << >> => e.notes_current = Some(h[Len(h)].notes)
    /\ (IsSome(rec) /\ ~RecExisting /\ Val(rec).op = "upsert") =>
           /\ RecAfter.notes_history = None
           /\ RecAfter.notes_current =
                  IF Val(rec).details.notes_text = << >>
                  THEN None
                  ELSE Some(Val(rec).details.notes_text)
    /\ (RecExisting /\ Val(rec).op = "update"
           /\ Val(rec).details.notes_text = << >>) =>
           /\ RecAfter.notes_current = RecBefore.notes_current
           /\ RecAfter.notes_history = RecBefore.notes_history

\* C26 witness: the entity was created with notes (history null), then other
\* notes were observed twice, and the last entry holds notes_current
C26_Witness ==
    /\ RecExisting
    /\ RecBefore.notes_current # None
    /\ Len(StoredHistory(RecBefore)) = 1
    /\ Len(StoredHistory(RecAfter)) = 2
    /\ RecAfter.notes_current = Some(StoredHistory(RecAfter)[2].notes)
    /\ RecAfter.notes_current # RecBefore.notes_current

\* C26 witness: an entity is created with notes
C26_WitnessCreated ==
    /\ IsSome(rec) /\ ~RecExisting /\ Val(rec).op = "upsert"
    /\ RecAfter.notes_current # None
    /\ RecAfter.notes_history = None

\* C26 witness: an entity with a history is observed as a current car with
\* empty notes
C26_WitnessEmptyNotes ==
    /\ RecExisting
    /\ Val(rec).op = "update"
    /\ RecOwnership = "Current Car"
    /\ Val(rec).details.notes_text = << >>
    /\ StoredHistory(RecBefore) # << >>
    /\ RecAfter.notes_current = RecBefore.notes_current

(***************************************************************************)
(* Termination of a run (under SpecLive).                                  *)
(***************************************************************************)
\* a run is between its start and its end
Running == pc \in {"fetch", "rows", "checkpoint"}

\* the positions of the listing fetches of the run, in log order, show
\* consecutive increasing pages
PagesInOrder ==
    \A k \in LogAt("listing") : \A j \in LogAt("listing") :
        (k < j /\ \A i \in LogAt("listing") : ~(k < i /\ i < j)) =>
            log[j].p = log[k].p + 1

\* the run has ended at an empty page, at a stop, or with an exception
Terminal == pc = "done" /\ outcome \in {"end", "stop", "fatal"}

\* C24: every run terminates: a run that has started eventually ends, at an
\* empty page (end), at the cutoff or the stop signature (stop), or with an
\* exception (fatal); the listing pages it fetched are consecutive pages in
\* increasing order, each fetched once.
C24_RunTerminates ==
    /\ [](pc # "idle" => PagesInOrder)
    /\ [](pc = "done" => Terminal)
    /\ Running ~> Terminal

\* C24 witness: a run has ended at an empty page after fetching three pages
C24_Witness ==
    /\ Terminal
    /\ outcome = "end"
    /\ Cardinality(LogAt("listing")) = 3
    /\ PagesInOrder

\* C24 witness: a nightly run has ended at the stop signature
C24_WitnessStop == Terminal /\ outcome = "stop" /\ mode = "nightly"

\* C24 witness: a run has ended with an exception on its second page
C24_WitnessFatal ==
    Terminal /\ outcome = "fatal" /\ Cardinality(LogAt("listing")) = 2

====
